---- MODULE Spec2Model ----
(***************************************************************************)
(* Wing Spar Quick Sizer (spar_streamlit.py).                              *)
(*                                                                         *)
(* The program is a Streamlit script: every widget edit re-runs the script *)
(* with run_btn = False (the script only shows the hint), and a click on   *)
(* "Compute" re-runs it with run_btn = True (the script parses the tube    *)
(* list, evaluates every admitted tube, sorts the table and recommends).   *)
(*                                                                         *)
(* Python floats are modelled as exact rationals <<n, d>> (d > 0, lowest   *)
(* terms); math.pi is the rational 355/113.  Rounding of binary floating   *)
(* point is therefore outside the model.                                   *)
(***************************************************************************)
EXTENDS Integers, Sequences, FiniteSets, TLC

\* The user types a further line only into a text of fewer lines than this.
MaxLines == 2

----------------------------------------------------------------------------
(* Rational arithmetic                                                     *)

Abs(x) == IF x < 0 THEN -x ELSE x

RECURSIVE GCD(_, _)
GCD(a, b) == IF b = 0 THEN a ELSE GCD(b, a % b)

\* n/d in lowest terms with a positive denominator (d # 0).
Rat(n, d) ==
    LET g == GCD(Abs(n), Abs(d))
        s == IF d < 0 THEN -1 ELSE 1
    IN  <<s * (n \div g), s * (d \div g)>>

RInt(n) == <<n, 1>>
Zero == <<0, 1>>

\* a * b: cross-reduced, which keeps lowest terms.
RMul(a, b) ==
    LET g1 == GCD(Abs(a[1]), b[2])
        g2 == GCD(Abs(b[1]), a[2])
    IN  <<(a[1] \div g1) * (b[1] \div g2), (a[2] \div g2) * (b[2] \div g1)>>

\* 1 / b for b # 0
RInv(b) == IF b[1] < 0 THEN <<-b[2], -b[1]>> ELSE <<b[2], b[1]>>

\* a / b for b # 0; the callers model b = 0 (ZeroDivisionError) themselves.
RDiv(a, b) == RMul(a, RInv(b))

RSub(a, b) ==
    LET g == GCD(a[2], b[2])
    IN  Rat(a[1] * (b[2] \div g) - b[1] * (a[2] \div g), a[2] * (b[2] \div g))

\* a ** 4
RPow4(a) == <<a[1] * a[1] * a[1] * a[1], a[2] * a[2] * a[2] * a[2]>>

\* a < b, by continued-fraction comparison (no cross products).
RECURSIVE RLt(_, _)
RLt(a, b) ==
    LET qa == a[1] \div a[2]
        qb == b[1] \div b[2]
        ra == a[1] % a[2]
        rb == b[1] % b[2]
    IN  IF qa # qb THEN qa < qb
        ELSE IF rb = 0 THEN FALSE
        ELSE IF ra = 0 THEN TRUE
        ELSE RLt(<<b[2], rb>>, <<a[2], ra>>)

RGeq(a, b) == ~RLt(a, b)

----------------------------------------------------------------------------
(* Physics functions                                                       *)

\* g = 9.81, the default argument of root_bending_moment
G == <<981, 100>>

\* math.pi
Pi == <<355, 113>>

root_bending_moment_no_factor(mass_kg, span_m, load_factor) ==
    LET W == RMul(mass_kg, G)
        L == W
        M == RDiv(RMul(L, span_m), RInt(8))
    IN  [W |-> W, L |-> L, M |-> M, Mmm |-> RMul(M, RInt(1000))]

root_bending_moment(mass_kg, span_m, load_factor) ==
    LET W == RMul(mass_kg, G)
        L == RMul(W, load_factor)
        M == RDiv(RMul(L, span_m), RInt(8))
    IN  [W |-> W, L |-> L, M |-> M, Mmm |-> RMul(M, RInt(1000))]

\* exc: the division I / c raised ZeroDivisionError (c = D / 2 = 0).
tube_section(D, d) ==
    LET I == RMul(RDiv(Pi, RInt(64)), RSub(RPow4(D), RPow4(d)))
        c == RDiv(D, RInt(2))
    IN  IF c = Zero
        THEN [exc |-> TRUE, I |-> I, S |-> Zero]
        ELSE [exc |-> FALSE, I |-> I, S |-> RDiv(I, c)]

\* exc: tube_section raised, or Mmm / S or strength / stress divided by zero.
compute_tube(mass, span, g_load, D, d, strength) ==
    LET load == root_bending_moment(mass, span, g_load)
        sec == tube_section(D, d)
    IN  IF sec.exc \/ sec.S = Zero
        THEN [exc |-> TRUE, stress |-> Zero, SF |-> Zero]
        ELSE LET stress == RDiv(load.Mmm, sec.S)
             IN  IF stress = Zero
                 THEN [exc |-> TRUE, stress |-> stress, SF |-> Zero]
                 ELSE [exc |-> FALSE, stress |-> stress,
                       SF |-> RDiv(strength, stress)]

----------------------------------------------------------------------------
(* Text of the tube list: a sequence of lines, a line a sequence of        *)
(* characters.                                                             *)

Digits == {"0", "1", "2", "3", "4", "5", "6", "7", "8", "9"}

DigitVal(c) ==
    CASE c = "0" -> 0 [] c = "1" -> 1 [] c = "2" -> 2 [] c = "3" -> 3
      [] c = "4" -> 4 [] c = "5" -> 5 [] c = "6" -> 6 [] c = "7" -> 7
      [] c = "8" -> 8 [] c = "9" -> 9

RECURSIVE DecVal(_)
DecVal(s) ==
    IF s = <<>> THEN 0
    ELSE 10 * DecVal(SubSeq(s, 1, Len(s) - 1)) + DigitVal(s[Len(s)])

\* float(part) for an optional sign and decimal digits; anything else raises
\* ValueError (ok = FALSE).
float(part) ==
    LET neg == part # <<>> /\ part[1] = "-"
        body == IF neg THEN Tail(part) ELSE part
    IN  IF body = <<>> \/ \E i \in 1..Len(body) : body[i] \notin Digits
        THEN [ok |-> FALSE, val |-> Zero]
        ELSE [ok |-> TRUE, val |-> RInt((IF neg THEN -1 ELSE 1) * DecVal(body))]

\* line.replace(" ", "")
RemoveSpaces(line) == SelectSeq(line, LAMBDA c : c # " ")

\* s.split(",")
RECURSIVE Split(_)
Split(s) ==
    IF \A i \in 1..Len(s) : s[i] # ","
    THEN <<s>>
    ELSE LET i == CHOOSE k \in 1..Len(s) :
                      s[k] = "," /\ \A j \in 1..(k - 1) : s[j] # ","
         IN  <<SubSeq(s, 1, i - 1)>> \o Split(SubSeq(s, i + 1, Len(s)))

\* if d < D:
AdmitOrEqual(D, d) == ~RLt(D, d)

Admit(D, d) == RLt(d, D)

\* The body of the for loop of parse_candidates for one line.
ParseLine(line) ==
    LET parts == Split(RemoveSpaces(line))
    IN  IF Len(parts) # 2 THEN <<>>
        ELSE LET D == float(parts[1])
                 d == float(parts[2])
             IN  IF D.ok /\ d.ok /\ Admit(D.val, d.val)
                 THEN <<[D |-> D.val, d |-> d.val]>>
                 ELSE <<>>

RECURSIVE ParseLines(_)
ParseLines(lines) ==
    IF lines = <<>> THEN <<>>
    ELSE ParseLine(Head(lines)) \o ParseLines(Tail(lines))

\* text.strip().split("\n") of the empty text is [""]: one empty line.
parse_candidates(text) ==
    ParseLines(IF text = <<>> THEN << <<>> >> ELSE text)

----------------------------------------------------------------------------
(* One script run                                                          *)

\* "Pass": SF >= target_SF
PassesStrict(SF, target) == RLt(target, SF)

Passes(SF, target) == RGeq(SF, target)

\* The results loop.  exc: compute_tube raised on some tube; results then
\* holds the entries appended before it.
RECURSIVE EvalLoop(_, _, _, _, _, _)
EvalLoop(tubes_, m, s, n, str, target) ==
    IF tubes_ = <<>> THEN [exc |-> FALSE, results |-> <<>>]
    ELSE LET t == Head(tubes_)
             r == compute_tube(m, s, n, t.D, t.d, str)
         IN  IF r.exc THEN [exc |-> TRUE, results |-> <<>>]
             ELSE LET rest == EvalLoop(Tail(tubes_), m, s, n, str, target)
                      row == [Outer |-> t.D, Inner |-> t.d, Stress |-> r.stress,
                              SF |-> r.SF, Pass |-> Passes(r.SF, target)]
                  IN  [exc |-> rest.exc, results |-> <<row>> \o rest.results]

\* pd.DataFrame(results): every row gets its index label 0, 1, ...
RECURSIVE Frame(_, _)
Frame(rows, first) ==
    IF rows = <<>> THEN <<>>
    ELSE <<[index |-> first, Outer |-> Head(rows).Outer, Inner |-> Head(rows).Inner,
            Stress |-> Head(rows).Stress, SF |-> Head(rows).SF,
            Pass |-> Head(rows).Pass]>> \o Frame(Tail(rows), first + 1)

DataFrame(rows) == Frame(rows, 0)

\* The rows of S that may come first in ascending order of "Outer (mm)".
Smallest(S) == {r \in S : \A q \in S : ~RLt(q.Outer, r.Outer)}

Largest(S) == {r \in S : \A q \in S : ~RLt(r.Outer, q.Outer)}

SortKeyFirst(S) == Smallest(S)

\* df.sort_values("Outer (mm)"): kind defaults to "quicksort", which is not
\* a stable sort, so rows with equal keys may come out in any order.
RECURSIVE Orders(_)
Orders(S) ==
    IF S = {} THEN {<<>>}
    ELSE UNION {{<<r>> \o t : t \in Orders(S \ {r})} : r \in SortKeyFirst(S)}

Range(f) == {f[i] : i \in DOMAIN f}

sort_values(frame) == Orders(Range(frame))

\* good.iloc[0]
LastRow(good_) == good_[Len(good_)]

FirstRow(good_) == good_[1]

\* if not tubes:
NeverEmpty(tubes_) == FALSE

NoTubes(tubes_) == tubes_ = <<>>

----------------------------------------------------------------------------
(* State: the widgets' values, and what the last script run left behind.   *)
(* An unset name is the empty sequence.                                    *)

VARIABLES mass, span, g_load, strength, target_SF, tube_text,
          run_btn, tubes, W, L, M, Mmm, results, df, good, best, shown

widgets == <<mass, span, g_load, strength, target_SF, tube_text>>
outputs == <<run_btn, tubes, W, L, M, Mmm, results, df, good, best, shown>>
vars == <<mass, span, g_load, strength, target_SF, tube_text,
          run_btn, tubes, W, L, M, Mmm, results, df, good, best, shown>>

\* text_default
TextDefault ==
    << <<"8", ",", "6">>, <<"1", "0", ",", "8">>, <<"1", "2", ",", "8">>,
       <<"1", "4", ",", "1", "0">>, <<"1", "6", ",", "1", "2">>,
       <<"1", "8", ",", "1", "4">> >>

\* The safety factor of the 12 x 8 tube under the default inputs: a target
\* the user can type that sits exactly on a tube's safety factor.
TargetOnTube == compute_tube(RInt(5), RInt(2), RInt(3), RInt(12), RInt(8), RInt(600)).SF

\* Values the number inputs are set to (each within its min_value).
MassValues == {RInt(5), Rat(1, 10)}
SpanValues == {RInt(2), RInt(1)}
LoadFactorValues == {RInt(3), RInt(1)}
StrengthValues == {RInt(600), RInt(10)}
TargetValues == {RInt(2), TargetOnTube}

\* Lines typed into the text area.
TypedLines ==
    { <<"8", ",", "6">>, <<"1", "2", ",", "8">>, <<"1", "2", ",", "6">>,
      <<"1", "4", ",", "1", "3">>,
      <<"8", ",", " ", "8">>, <<"6", ",", "8">>,
      <<"2", ",", "-", "2">>, <<"0", ",", "-", "1">>,
      <<"1", ",", "-", "2">>, <<"-", "1", ",", "-", "2">>,
      <<"x", ",", "6">> }

Init ==
    /\ mass = RInt(5)
    /\ span = RInt(2)
    /\ g_load = RInt(3)
    /\ strength = RInt(600)
    /\ target_SF = RInt(2)
    /\ tube_text = TextDefault
    /\ run_btn = FALSE
    /\ tubes = <<>> /\ W = <<>> /\ L = <<>> /\ M = <<>> /\ Mmm = <<>>
    /\ results = <<>> /\ df = <<>> /\ good = <<>> /\ best = <<>>
    /\ shown = <<"info">>

\* A script run with run_btn = False: the else branch, st.info(...).
Idle ==
    /\ run_btn' = FALSE
    /\ tubes' = <<>> /\ W' = <<>> /\ L' = <<>> /\ M' = <<>> /\ Mmm' = <<>>
    /\ results' = <<>> /\ df' = <<>> /\ good' = <<>> /\ best' = <<>>
    /\ shown' = <<"info">>

SetMass ==
    \E v \in MassValues \ {mass} :
        /\ mass' = v
        /\ UNCHANGED <<span, g_load, strength, target_SF, tube_text>>
        /\ Idle

SetSpan ==
    \E v \in SpanValues \ {span} :
        /\ span' = v
        /\ UNCHANGED <<mass, g_load, strength, target_SF, tube_text>>
        /\ Idle

SetLoadFactor ==
    \E v \in LoadFactorValues \ {g_load} :
        /\ g_load' = v
        /\ UNCHANGED <<mass, span, strength, target_SF, tube_text>>
        /\ Idle

SetStrength ==
    \E v \in StrengthValues \ {strength} :
        /\ strength' = v
        /\ UNCHANGED <<mass, span, g_load, target_SF, tube_text>>
        /\ Idle

SetTargetSF ==
    \E v \in TargetValues \ {target_SF} :
        /\ target_SF' = v
        /\ UNCHANGED <<mass, span, g_load, strength, tube_text>>
        /\ Idle

\* The user adds a line at the end of the text area.
TypeLine ==
    \E line \in TypedLines :
        /\ Len(tube_text) < MaxLines
        /\ tube_text' = Append(tube_text, line)
        /\ UNCHANGED <<mass, span, g_load, strength, target_SF>>
        /\ Idle

\* The user deletes the last line of the text area.
DeleteLine ==
    /\ tube_text # <<>>
    /\ tube_text' = SubSeq(tube_text, 1, Len(tube_text) - 1)
    /\ UNCHANGED <<mass, span, g_load, strength, target_SF>>
    /\ Idle

\* A click on "Compute": the script run with run_btn = True.
Compute ==
    LET parsed == parse_candidates(tube_text)
        load == root_bending_moment(mass, span, g_load)
        loop == EvalLoop(parsed, mass, span, g_load, strength, target_SF)
    IN  /\ run_btn' = TRUE
        /\ tubes' = parsed
        /\ UNCHANGED widgets
        /\ IF NoTubes(parsed)
           THEN \* st.error("No valid tubes! ..."); st.stop()
                /\ W' = <<>> /\ L' = <<>> /\ M' = <<>> /\ Mmm' = <<>>
                /\ results' = <<>> /\ df' = <<>> /\ good' = <<>> /\ best' = <<>>
                /\ shown' = <<"error_no_tubes">>
           ELSE /\ W' = load.W /\ L' = load.L /\ M' = load.M /\ Mmm' = load.Mmm
                /\ results' = loop.results
                /\ IF loop.exc
                   THEN \* ZeroDivisionError leaves the script
                        /\ df' = <<>> /\ good' = <<>> /\ best' = <<>>
                        /\ shown' = <<"summary", "exception">>
                   ELSE \E sorted \in sort_values(DataFrame(loop.results)) :
                            LET passing == SelectSeq(sorted, LAMBDA r : r.Pass)
                            IN  /\ df' = sorted
                                /\ good' = passing
                                /\ IF passing # <<>>
                                   THEN /\ best' = <<FirstRow(passing)>>
                                        /\ shown' = <<"summary", "table",
                                                      "success", "plot">>
                                   ELSE /\ best' = <<>>
                                        /\ shown' = <<"summary", "table",
                                                      "error_no_pass", "plot">>

Next ==
    \/ SetMass
    \/ SetSpan
    \/ SetLoadFactor
    \/ SetStrength
    \/ SetTargetSF
    \/ TypeLine
    \/ DeleteLine
    \/ Compute

Spec == Init /\ [][Next]_vars

----------------------------------------------------------------------------
(* Properties                                                              *)

Shown(e) == \E i \in 1..Len(shown) : shown[i] = e

RPos(a) == a[1] > 0

\* What is written on each well-formed line of the model's texts, read off
\* the text by hand.
Written ==
    { [line |-> <<"8", ",", "6">>, D |-> 8, d |-> 6],
      [line |-> <<"1", "0", ",", "8">>, D |-> 10, d |-> 8],
      [line |-> <<"1", "2", ",", "8">>, D |-> 12, d |-> 8],
      [line |-> <<"1", "4", ",", "1", "0">>, D |-> 14, d |-> 10],
      [line |-> <<"1", "6", ",", "1", "2">>, D |-> 16, d |-> 12],
      [line |-> <<"1", "8", ",", "1", "4">>, D |-> 18, d |-> 14],
      [line |-> <<"1", "2", ",", "6">>, D |-> 12, d |-> 6],
      [line |-> <<"1", "4", ",", "1", "3">>, D |-> 14, d |-> 13],
      [line |-> <<"8", ",", " ", "8">>, D |-> 8, d |-> 8],
      [line |-> <<"6", ",", "8">>, D |-> 6, d |-> 8],
      [line |-> <<"2", ",", "-", "2">>, D |-> 2, d |-> -2],
      [line |-> <<"0", ",", "-", "1">>, D |-> 0, d |-> -1],
      [line |-> <<"1", ",", "-", "2">>, D |-> 1, d |-> -2],
      [line |-> <<"-", "1", ",", "-", "2">>, D |-> -1, d |-> -2] }

\* A line holding a valid geometry: 0 < inner < outer.
ValidLine(line) == \E w \in Written : w.line = line /\ 0 < w.d /\ w.d < w.D

\* A line holding a geometry with inner >= outer.
InvertedLine(line) == \E w \in Written : w.line = line /\ w.d >= w.D

ValidUpTo(i) == Cardinality({j \in 1..i : ValidLine(tube_text[j])})

\* A row of a valid geometry.
ValidRow(r) == RPos(r.Inner) /\ RLt(r.Inner, r.Outer)

\* Cross-sectional area over pi/4: D^2 - d^2.
Area(r) == RSub(RMul(r.Outer, r.Outer), RMul(r.Inner, r.Inner))

\* C1: the results of a Compute run are in ascending order of outer
\* diameter, and the recommendation, when there is one, is the first row of
\* that order that passes: it is a row of the table, it passes, no row
\* before it passes and no row of strictly smaller outer diameter passes.
C1_SortedAndFirstPassing ==
    (run_btn /\ Shown("table")) =>
        /\ tubes # <<>>
        /\ \A i, j \in 1..Len(df) : i < j => ~RLt(df[j].Outer, df[i].Outer)
        /\ best # <<>> =>
             /\ \E k \in 1..Len(df) :
                    /\ df[k] = best[1]
                    /\ \A j \in 1..(k - 1) : ~df[j].Pass
             /\ best[1].Pass
             /\ \A j \in 1..Len(df) :
                    RLt(df[j].Outer, best[1].Outer) => ~df[j].Pass

\* C1's case: a recommendation below which a smaller tube fails, from a tube
\* list that was not typed in ascending order.
C1_Witness ==
    /\ run_btn /\ Shown("success")
    /\ \E j \in 1..Len(df) : RLt(df[j].Outer, best[1].Outer)
    /\ \E i \in 1..Len(df) : df[i].index # i - 1

\* C2: over a non-empty candidate list a Compute run reports "no tube meets
\* the target" exactly when no evaluated candidate has a safety factor at or
\* above the target, and then every entry has Pass = FALSE and the outcome is
\* not the no-valid-tubes error.
C2_NoRecommendationIffNonePasses ==
    (run_btn /\ tubes # <<>>) =>
        /\ Shown("error_no_pass")
             <=> (\A i \in 1..Len(results) : RLt(results[i].SF, target_SF))
        /\ Shown("error_no_pass") =>
             /\ \A i \in 1..Len(df) : ~df[i].Pass
             /\ best = <<>>
             /\ ~Shown("error_no_tubes")

\* C2 on the runs that reach the table (no exception left the script).
C2_OnCompletedRuns ==
    (run_btn /\ Shown("table")) =>
        /\ Shown("error_no_pass")
             <=> (\A i \in 1..Len(results) : RLt(results[i].SF, target_SF))
        /\ Shown("error_no_pass") <=> ~Shown("success")
        /\ Shown("error_no_pass") =>
             /\ \A i \in 1..Len(df) : ~df[i].Pass
             /\ best = <<>>
             /\ ~Shown("error_no_tubes")

\* C3: when no candidate is left after parsing, a Compute run shows the
\* no-valid-tubes error and nothing else: no load summary, no evaluation
\* result, no table and no recommendation.
C3_NoCandidatesStops ==
    (run_btn /\ parse_candidates(tube_text) = <<>>) =>
        /\ shown = <<"error_no_tubes">>
        /\ W = <<>> /\ L = <<>> /\ M = <<>> /\ Mmm = <<>>
        /\ results = <<>> /\ df = <<>> /\ good = <<>> /\ best = <<>>

\* C3's case: a Compute run over a text whose every line is rejected.
C3_Witness ==
    /\ run_btn /\ tube_text # <<>>
    /\ \A i \in 1..Len(tube_text) : InvertedLine(tube_text[i])
    /\ Shown("error_no_tubes")

\* C4: a line with inner >= outer is never evaluated and does not abort the
\* run: over a text of such lines and valid ones, with a valid one among
\* them, the run reaches the table, and each valid line has exactly one row,
\* the row labelled with its rank among the valid lines; there is no other
\* row.
C4_InvertedExcludedValidKept ==
    ( /\ run_btn
      /\ \A i \in 1..Len(tube_text) :
             ValidLine(tube_text[i]) \/ InvertedLine(tube_text[i])
      /\ \E i \in 1..Len(tube_text) : ValidLine(tube_text[i]) ) =>
        /\ Shown("table") /\ ~Shown("exception") /\ ~Shown("error_no_tubes")
        /\ Len(df) = ValidUpTo(Len(tube_text))
        /\ Len(results) = Len(df)
        /\ \A k \in 1..Len(df) : RLt(df[k].Inner, df[k].Outer)
        /\ \A i \in 1..Len(tube_text) :
               ValidLine(tube_text[i]) =>
                   LET w == CHOOSE x \in Written : x.line = tube_text[i]
                       rows == {k \in 1..Len(df) : df[k].index = ValidUpTo(i) - 1}
                   IN  /\ Cardinality(rows) = 1
                       /\ \A k \in rows : /\ df[k].Outer = RInt(w.D)
                                          /\ df[k].Inner = RInt(w.d)
                       /\ results[ValidUpTo(i)].Outer = RInt(w.D)
                       /\ results[ValidUpTo(i)].Inner = RInt(w.d)

\* C4's case: a text that starts with an inverted line and holds a valid one
\* after it.
C4_Witness ==
    /\ run_btn /\ Len(tube_text) >= 2
    /\ InvertedLine(tube_text[1])
    /\ \A i \in 2..Len(tube_text) : ValidLine(tube_text[i])
    /\ Len(df) = Len(tube_text) - 1

\* C5: every geometry that reaches evaluation has 0 < inner < outer, no run
\* ends in a division by zero, and no results entry has a zero or negative
\* stress or safety factor.
C5_OnlyValidGeometryEvaluated ==
    run_btn =>
        /\ \A i \in 1..Len(tubes) : RPos(tubes[i].d) /\ RLt(tubes[i].d, tubes[i].D)
        /\ ~Shown("exception")
        /\ \A i \in 1..Len(results) :
               RPos(results[i].Stress) /\ RPos(results[i].SF)

\* C6: root_bending_moment returns weight = m * 9.81, limitLoad = weight * n,
\* rootMoment = m * 9.81 * n * s / 8 and rootMoment * 1000; for m = 5, s = 2,
\* n = 3 these are 49.05, 147.15, 36.7875 and 36787.5.
C6_RootBendingMoment ==
    (run_btn /\ Shown("summary")) =>
        /\ W = Rat(mass[1] * 981, mass[2] * 100)
        /\ L = Rat(mass[1] * 981 * g_load[1], mass[2] * 100 * g_load[2])
        /\ M = Rat(mass[1] * 981 * g_load[1] * span[1],
                   mass[2] * 100 * g_load[2] * span[2] * 8)
        /\ Mmm = Rat(M[1] * 1000, M[2])
        /\ (mass = RInt(5) /\ span = RInt(2) /\ g_load = RInt(3)) =>
               /\ W = <<981, 20>>
               /\ L = <<2943, 20>>
               /\ M = <<2943, 80>>
               /\ Mmm = <<73575, 2>>

\* C6's case: the load summary of m = 5, s = 2, n = 3.
C6_Witness ==
    /\ run_btn /\ Shown("summary")
    /\ mass = RInt(5) /\ span = RInt(2) /\ g_load = RInt(3)
    /\ M = <<2943, 80>>

\* C7: for a row of a valid geometry, stress = (rootMoment * 1000) / S with
\* S = (pi / 64 * (D^4 - d^4)) / (D / 2), safetyFactor = strength / stress,
\* and Pass is TRUE exactly when safetyFactor >= target, equality included.
C7_StressSafetyFactorPass ==
    (run_btn /\ Shown("table")) =>
        \A k \in 1..Len(df) :
            ValidRow(df[k]) =>
                LET D == df[k].Outer[1]
                    d == df[k].Inner[1]
                    I == RMul(Rat(Pi[1], Pi[2] * 64), RInt(D * D * D * D - d * d * d * d))
                    S == RDiv(I, Rat(D, 2))
                IN  /\ df[k].Stress = RDiv(RMul(M, RInt(1000)), S)
                    /\ df[k].SF = RDiv(strength, df[k].Stress)
                    /\ df[k].Pass <=> (df[k].SF = target_SF \/ RLt(target_SF, df[k].SF))

\* C7's case: a valid tube whose safety factor equals the target, and passes.
C7_Witness ==
    /\ run_btn /\ Shown("table")
    /\ \E k \in 1..Len(df) :
           ValidRow(df[k]) /\ df[k].SF = target_SF /\ df[k].Pass

\* C8: among the evaluated tubes of one inner diameter d (d < D1 < D2), the
\* larger outer diameter has the strictly smaller stress and the strictly
\* larger safety factor, and passes whenever the smaller one passes.
C8_MonotoneInOuterDiameter ==
    (run_btn /\ Shown("table")) =>
        \A i, j \in 1..Len(df) :
            (df[i].Inner = df[j].Inner /\ RLt(df[i].Outer, df[j].Outer)) =>
                /\ RLt(df[j].Stress, df[i].Stress)
                /\ RLt(df[i].SF, df[j].SF)
                /\ df[i].Pass => df[j].Pass

\* C8 on valid geometries (0 < d < D1 < D2) only.
C8_MonotoneOnValidTubes ==
    (run_btn /\ Shown("table")) =>
        \A i, j \in 1..Len(df) :
            ( /\ ValidRow(df[i]) /\ ValidRow(df[j])
              /\ df[i].Inner = df[j].Inner /\ RLt(df[i].Outer, df[j].Outer) ) =>
                /\ RLt(df[j].Stress, df[i].Stress)
                /\ RLt(df[i].SF, df[j].SF)
                /\ df[i].Pass => df[j].Pass

\* C9 as claimed: the recommended tube is the lightest passing one: no
\* passing candidate has a smaller cross-sectional area.
C9_RecommendedIsLightest ==
    (run_btn /\ best # <<>>) =>
        \A i \in 1..Len(results) :
            RGeq(results[i].SF, target_SF) =>
                ~RLt(Area(results[i]), Area(best[1]))

\* C9 as amended: the recommended tube is a candidate that meets the target,
\* and no candidate that meets the target has a smaller outer diameter.
C9_RecommendedIsSmallestOuter ==
    (run_btn /\ best # <<>>) =>
        /\ \E i \in 1..Len(results) :
               /\ results[i].Outer = best[1].Outer
               /\ results[i].Inner = best[1].Inner
               /\ results[i].SF = best[1].SF
               /\ RGeq(results[i].SF, target_SF)
        /\ \A i \in 1..Len(results) :
               RGeq(results[i].SF, target_SF) =>
                   ~RLt(results[i].Outer, best[1].Outer)

\* C9's case: a valid tube is recommended although a larger valid tube that
\* also meets the target is lighter.
C9_Witness ==
    /\ run_btn /\ best # <<>> /\ ValidRow(best[1])
    /\ \E i \in 1..Len(results) :
           /\ ValidRow(results[i])
           /\ RGeq(results[i].SF, target_SF)
           /\ RLt(best[1].Outer, results[i].Outer)
           /\ RLt(Area(results[i]), Area(best[1]))

\* The columns of a row of df, without its index label.
Columns(r) ==
    [Outer |-> r.Outer, Inner |-> r.Inner, Stress |-> r.Stress,
     SF |-> r.SF, Pass |-> r.Pass]

RECURSIVE ColumnsOf(_)
ColumnsOf(rows) ==
    IF rows = <<>> THEN <<>> ELSE <<Columns(Head(rows))>> \o ColumnsOf(Tail(rows))

\* C10: the sort is stable: the rows of one outer diameter stand in the
\* table in the order in which they were listed, so among the passing tubes
\* of the recommended outer diameter the one listed first is recommended.
C10_StableSort ==
    (run_btn /\ Shown("table")) =>
        /\ \A k \in 1..Len(results) :
               ColumnsOf(SelectSeq(df, LAMBDA r : r.Outer = results[k].Outer))
                   = SelectSeq(results, LAMBDA r : r.Outer = results[k].Outer)
        /\ best # <<>> =>
               LET listed == SelectSeq(results,
                                 LAMBDA r : r.Pass /\ r.Outer = best[1].Outer)
               IN  Columns(best[1]) = listed[1]

====
